---------------------------- MODULE Spec2Model ----------------------------
(***************************************************************************)
(* A model of the engine core of userver: the wait-list of                 *)
(* src/src/engine/wait_list.cpp and the task processor of                  *)
(* src/src/engine/task/task_processor.cpp.                                 *)
(***************************************************************************)
EXTENDS Integers, Sequences, FiniteSets, TLC

(***************************************************************************)
(* Bounds of the model.                                                    *)
(***************************************************************************)
\* contexts that use the wait-list
NumContexts == 3
\* threads that call Append / WakeupOne / WakeupAll under the primitive's lock
NumCallers == 2
\* most slots (tombstones included) the wait-list holds in the model
MaxSlots == 4

\* task contexts in the scheduling and shutdown scenario
SchedTasks == 2
\* most Schedule calls made in a scenario with workers
MaxSchedules == 2
\* the steady clock runs from 1 to MaxTime
MaxTime == 3
\* most timed-out dequeues that find is_running set
MaxSlowSwitch == 1
\* the nonzero max_task_queue_wait_time the model configures
WaitTimeLimit == 1
\* the largest max_task_queue_wait_length the model configures
MaxQueueLimit == 1
\* the tasks of the Adopt scenario
AdoptTasks == 1
\* the tasks one producer schedules in the ordering scenario
OrderTasks == 2
\* the tasks that park on the wait-list
ParkTasks == 1
\* in the queue-length scenario: the largest max_task_queue_wait_length and
\* the most non-critical tasks scheduled
LenQueueLimit == 4
LenTasks == 10

\* SetTaskQueueWaitTimepoint: one Schedule in kTaskTimestampFrequency per
\* thread reads the clock
kTaskTimestampFrequency == 16

Contexts == 1..NumContexts
Callers == 1..NumCallers

\* std::chrono::steady_clock::time_point(): no timestamp was taken
Sentinel == 0

\* an empty boost::intrusive_ptr (a slot after reset())
Null == 0

Range(s) == {s[i] : i \in 1..Len(s)}

(***************************************************************************)
(* The state.                                                              *)
(***************************************************************************)
VARIABLES
  \* WaitList::waiting_contexts_: a deque of handles, Null for a reset slot
  waiting_contexts,
  \* the holders of the primitive's lock (WaitListBase::Lock); at most one
  \* when every holder took it through LockAvailable
  wl_lock,
  \* where each context's Remove call is: "idle", "lock", "find", "reset"
  rm_pc,
  \* the iterator `it` of a Remove call in progress (an index into the deque)
  rm_it,
  \* history: Wakeup(kWaitList) calls each context received since its Append
  wakeups,
  \* history: how the context's Remove ended since its Append:
  \* "unlisted" (never appended), "none", "cleared" (slot reset), "absent"
  rm_result,
  \* history: the contexts appended and neither removed nor woken, in
  \* Append order
  fifo,
  \* history: the last wait-list operation and the contexts it woke, in order
  wl_last

wl_vars == <<waiting_contexts, wl_lock, rm_pc, rm_it, wakeups, rm_result,
             fifo, wl_last>>

VARIABLES
  \* TaskProcessor's atomics
  is_running, is_shutting_down, task_queue_size,
  task_queue_wait_time_overloaded,
  \* the runtime settings: max_task_queue_wait_time_ (0: off),
  \* max_task_queue_wait_length_ (0: off), overload_action_
  max_task_queue_wait_time, max_task_queue_wait_length, overload_action,
  \* task_queue_: one FIFO per producing thread (moodycamel::ConcurrentQueue)
  task_queue,
  \* detached_contexts_ and the holder of detached_contexts_mutex_ (or Free)
  detached_contexts, detached_contexts_mutex,
  \* task_counter_: overload, cancel_overload and switch_slow counts
  task_counter,
  \* impl::TaskContext, per task: critical, finished, detached, timepoint,
  \* the RequestCancel calls received per reason, the reference count, and
  \* where the coroutine is: "idle" (new or parked), "runnable", "finished",
  \* "failed"
  context,
  \* each Schedule call in progress: its position and its context
  sched,
  \* thread_local task_count of SetTaskQueueWaitTimepoint, modulo
  \* kTaskTimestampFrequency
  task_count,
  \* each worker's position in ProcessTasks ("terminated": the process ended
  \* in this thread), its context and has_failed
  worker,
  \* each task's Adopt call: "user" (not called, the user holds the handle),
  \* "locked", "insert", and returned: "dropped" or "inserted"
  adopt,
  \* the destructor's position
  dtor,
  \* std::chrono::steady_clock::now()
  now,
  \* the Schedule calls the scenario may still make
  budget,
  \* history, per task: whether is_shutting_down was set when the Schedule
  \* call that last took the task began (FALSE again once it is stepped)
  shut_at_call,
  \* history, per task of a scenario that counts: the DoStep calls made on
  \* it, the times it parked itself, and its Append calls (<<>>: not counted)
  step_count

\* the task contexts, the worker threads and the producing threads
Tasks == DOMAIN context
Workers == DOMAIN worker
Producers == DOMAIN sched

tp_vars == <<is_running, is_shutting_down, task_queue_size,
             task_queue_wait_time_overloaded, max_task_queue_wait_time,
             max_task_queue_wait_length, overload_action, task_queue,
             detached_contexts, detached_contexts_mutex, task_counter,
             context, sched, task_count, worker, adopt, dtor, now, budget,
             shut_at_call, step_count>>

vars == <<wl_vars, tp_vars>>

\* the settings, which no operation of the processor writes
settings == <<max_task_queue_wait_time, max_task_queue_wait_length,
              overload_action>>

(***************************************************************************)
(* Wait-list: the pure parts of the operations.                            *)
(***************************************************************************)
\* a lock that never excludes anybody
LockNeverHeld(holders) == TRUE

\* Lock lock(*this) can be taken when nobody holds it
LockAvailable(holders) == holders = {}

CallerId(t) == <<"caller", t>>
RemoverId(c) == <<"remove", c>>

\* WakeupOne with `if` for `while`: pops one slot, empty or not
WakeupOneNoSkip(list) ==
  IF list = <<>> THEN [list |-> <<>>, woken |-> <<>>]
  ELSE IF Head(list) # Null
       THEN [list |-> Tail(list), woken |-> <<Head(list)>>]
       ELSE [list |-> Tail(list), woken |-> <<>>]

\* WakeupOne's loop: pop slots from the front until a non-empty one is found
RECURSIVE WakeupOneLoop(_)
WakeupOneLoop(list) ==
  IF list = <<>> THEN [list |-> <<>>, woken |-> <<>>]
  ELSE IF Head(list) # Null
       THEN [list |-> Tail(list), woken |-> <<Head(list)>>]
       ELSE WakeupOneLoop(Tail(list))

\* WakeupAll's loop: the non-empty slots, front to back
WakeupAllWoken(list) == SelectSeq(list, LAMBDA x : x # Null)

\* WakeupAll without the clear()
WakeupAllNoClear(list) == list

\* waiting_contexts_.clear()
WakeupAllList(list) == <<>>

\* std::find(begin, end, context): the first index holding c, Len+1 for end()
Find(list, c) ==
  IF \E i \in 1..Len(list) : list[i] = c
  THEN CHOOSE i \in 1..Len(list) :
         list[i] = c /\ \A j \in 1..(i - 1) : list[j] # c
  ELSE Len(list) + 1

\* Remove that leaves the slot as it is
KeepSlot(list, i) == list

\* it->reset()
ResetSlot(list, i) == [list EXCEPT ![i] = Null]

\* a sequence without its occurrences of c
Without(s, c) == SelectSeq(s, LAMBDA x : x # c)

RECURSIVE WakeAll(_, _)
\* the wakeup counters after Wakeup(kWaitList) on each context of `woken`
WakeAll(counts, woken) ==
  IF woken = <<>> THEN counts
  ELSE WakeAll([counts EXCEPT ![Head(woken)] = @ + 1], Tail(woken))

RECURSIVE WithoutAll(_, _)
WithoutAll(s, woken) ==
  IF woken = <<>> THEN s ELSE WithoutAll(Without(s, Head(woken)), Tail(woken))

(***************************************************************************)
(* Wait-list: the operations.                                              *)
(***************************************************************************)
WLInit ==
  /\ waiting_contexts = <<>>
  /\ wl_lock = {}
  /\ rm_pc = [c \in Contexts |-> "idle"]
  /\ rm_it = [c \in Contexts |-> 0]
  /\ wakeups = [c \in Contexts |-> 0]
  /\ rm_result = [c \in Contexts |-> "unlisted"]
  /\ fifo = <<>>
  /\ wl_last = [op |-> "none", woken |-> <<>>]

\* the caller of Append / WakeupOne / WakeupAll takes the primitive's lock
LockPrimitive(t) ==
  /\ CallerId(t) \notin wl_lock
  /\ LockAvailable(wl_lock)
  /\ wl_lock' = wl_lock \cup {CallerId(t)}
  /\ wl_last' = [op |-> "Lock", woken |-> <<>>]
  /\ UNCHANGED <<tp_vars, waiting_contexts, rm_pc, rm_it, wakeups, rm_result, fifo>>

UnlockPrimitive(t) ==
  /\ CallerId(t) \in wl_lock
  /\ wl_lock' = wl_lock \ {CallerId(t)}
  /\ wl_last' = [op |-> "Unlock", woken |-> <<>>]
  /\ UNCHANGED <<tp_vars, waiting_contexts, rm_pc, rm_it, wakeups, rm_result, fifo>>

\* WaitList::Append(lock, context), line 14. A task appends itself when it
\* parks, so not while an earlier Append of it is still pending: it was
\* woken through the list since, or its Remove has returned
WaitListAppend(t, c) ==
  /\ CallerId(t) \in wl_lock
  /\ rm_result[c] # "none" \/ wakeups[c] >= 1
  /\ rm_pc[c] = "idle"
  /\ Len(waiting_contexts) < MaxSlots
  /\ waiting_contexts' = Append(waiting_contexts, c)
  /\ wakeups' = [wakeups EXCEPT ![c] = 0]
  /\ rm_result' = [rm_result EXCEPT ![c] = "none"]
  /\ fifo' = Append(Without(fifo, c), c)
  /\ wl_last' = [op |-> "Append", woken |-> <<>>]
  /\ UNCHANGED <<tp_vars, wl_lock, rm_pc, rm_it>>

\* WaitList::WakeupOne(lock)
WakeupOne(t) ==
  /\ CallerId(t) \in wl_lock
  /\ LET r == WakeupOneLoop(waiting_contexts) IN
       /\ waiting_contexts' = r.list
       /\ wakeups' = WakeAll(wakeups, r.woken)
       /\ fifo' = WithoutAll(fifo, r.woken)
       /\ wl_last' = [op |-> "WakeupOne", woken |-> r.woken]
  /\ UNCHANGED <<tp_vars, wl_lock, rm_pc, rm_it, rm_result>>

\* WaitList::WakeupAll(lock)
WakeupAll(t) ==
  /\ CallerId(t) \in wl_lock
  /\ LET woken == WakeupAllWoken(waiting_contexts) IN
       /\ waiting_contexts' = WakeupAllList(waiting_contexts)
       /\ wakeups' = WakeAll(wakeups, woken)
       /\ fifo' = WithoutAll(fifo, woken)
       /\ wl_last' = [op |-> "WakeupAll", woken |-> woken]
  /\ UNCHANGED <<tp_vars, wl_lock, rm_pc, rm_it, rm_result>>

\* WaitList::Remove(context) is called by the task that appended itself
RemoveCall(c) ==
  /\ rm_pc[c] = "idle"
  /\ rm_result[c] = "none"
  /\ rm_pc' = [rm_pc EXCEPT ![c] = "lock"]
  /\ wl_last' = [op |-> "RemoveCall", woken |-> <<>>]
  /\ UNCHANGED <<tp_vars, waiting_contexts, wl_lock, rm_it, wakeups, rm_result, fifo>>

\* Lock lock(*this)
RemoveLock(c) ==
  /\ rm_pc[c] = "lock"
  /\ LockAvailable(wl_lock)
  /\ wl_lock' = wl_lock \cup {RemoverId(c)}
  /\ rm_pc' = [rm_pc EXCEPT ![c] = "find"]
  /\ wl_last' = [op |-> "RemoveLock", woken |-> <<>>]
  /\ UNCHANGED <<tp_vars, waiting_contexts, rm_it, wakeups, rm_result, fifo>>

\* auto it = std::find(...); if (it == end()) return;
RemoveFind(c) ==
  /\ rm_pc[c] = "find"
  /\ LET it == Find(waiting_contexts, c) IN
       IF it = Len(waiting_contexts) + 1
       THEN /\ rm_pc' = [rm_pc EXCEPT ![c] = "idle"]
            /\ rm_it' = [rm_it EXCEPT ![c] = 0]
            /\ rm_result' = [rm_result EXCEPT ![c] = "absent"]
            /\ wl_lock' = wl_lock \ {RemoverId(c)}
            /\ wl_last' = [op |-> "RemoveAbsent", woken |-> <<>>]
       ELSE /\ rm_pc' = [rm_pc EXCEPT ![c] = "reset"]
            /\ rm_it' = [rm_it EXCEPT ![c] = it]
            /\ wl_last' = [op |-> "RemoveFind", woken |-> <<>>]
            /\ UNCHANGED <<rm_result, wl_lock>>
  /\ UNCHANGED <<tp_vars, waiting_contexts, wakeups, fifo>>

\* it->reset(); the lock is released on return
RemoveReset(c) ==
  /\ rm_pc[c] = "reset"
  /\ waiting_contexts' = ResetSlot(waiting_contexts, rm_it[c])
  /\ rm_pc' = [rm_pc EXCEPT ![c] = "idle"]
  /\ rm_it' = [rm_it EXCEPT ![c] = 0]
  /\ rm_result' = [rm_result EXCEPT ![c] = "cleared"]
  /\ fifo' = Without(fifo, c)
  /\ wl_lock' = wl_lock \ {RemoverId(c)}
  /\ wl_last' = [op |-> "RemoveReset", woken |-> <<>>]
  /\ UNCHANGED <<tp_vars, wakeups>>

WLNext ==
  \/ \E t \in Callers : LockPrimitive(t)
  \/ \E t \in Callers : UnlockPrimitive(t)
  \/ \E t \in Callers, c \in Contexts : WaitListAppend(t, c)
  \/ \E t \in Callers : WakeupOne(t)
  \/ \E t \in Callers : WakeupAll(t)
  \/ \E c \in Contexts : RemoveCall(c)
  \/ \E c \in Contexts : RemoveLock(c)
  \/ \E c \in Contexts : RemoveFind(c)
  \/ \E c \in Contexts : RemoveReset(c)

(***************************************************************************)
(* Wait-list: the properties.                                              *)
(***************************************************************************)
\* the deque holds the live contexts in Append order, plus tombstones
FifoIsListed == fifo = SelectSeq(waiting_contexts, LAMBDA x : x # Null)

\* C1: every WakeupOne wakes exactly the earliest-appended context that is
\* still listed and was not cleared by Remove, wakes no other context, and
\* wakes nothing when no non-empty slot exists.
C1_WakeupOneFifo ==
  [][wl_last'.op = "WakeupOne" =>
       IF fifo = <<>>
       THEN wl_last'.woken = <<>> /\ wakeups' = wakeups
       ELSE /\ wl_last'.woken = <<Head(fifo)>>
            /\ wakeups' = [wakeups EXCEPT ![Head(fifo)] = @ + 1]
            /\ Head(fifo) \notin Range(waiting_contexts')
            /\ \A c \in Range(Tail(fifo)) : c \in Range(waiting_contexts')]_vars

\* a WakeupOne woke a context while a removed one had left a tombstone and a
\* later-appended context stays listed
C1_Witness ==
  /\ wl_last.op = "WakeupOne"
  /\ wl_last.woken # <<>>
  /\ fifo # <<>>
  /\ \E c \in Contexts : rm_result[c] = "cleared"

\* (a) of C2: woken exactly once, and no slot holds c
WokenOnce(c) == wakeups[c] = 1 /\ c \notin Range(waiting_contexts)
\* (b) of C2: not woken, its slot reset by Remove
Tombstoned(c) ==
  /\ wakeups[c] = 0
  /\ rm_result[c] = "cleared"
  /\ c \notin Range(waiting_contexts)

\* C2: once c's Remove has returned, in every interleaving with WakeupOne,
\* exactly one of (a) and (b) holds; c is never both woken and tombstoned,
\* never woken twice, and never left listed once woken or removed.
C2_RemoveRace ==
  \A c \in Contexts :
    /\ rm_result[c] \in {"cleared", "absent"} =>
         (WokenOnce(c) /\ ~Tombstoned(c)) \/ (Tombstoned(c) /\ ~WokenOnce(c))
    /\ ~(wakeups[c] >= 1 /\ rm_result[c] = "cleared")
    /\ wakeups[c] <= 1
    /\ c \in Range(waiting_contexts) =>
         wakeups[c] = 0 /\ rm_result[c] = "none"

\* a Remove that waited for the lock while WakeupOne woke its context, and
\* then found nothing
C2_Witness ==
  \E c \in Contexts :
    /\ wl_last.op = "RemoveAbsent"
    /\ rm_result[c] = "absent"
    /\ wakeups[c] = 1
    /\ \E d \in Contexts : d # c /\ rm_result[d] = "cleared" /\ wakeups[d] = 0

\* C3: WakeupAll delivers exactly one Wakeup to each context appended and
\* not removed, in Append order, none to a removed one, and empties the list.
C3_WakeupAll ==
  [][wl_last'.op = "WakeupAll" =>
       /\ wl_last'.woken = fifo
       /\ \A c \in Contexts :
            wakeups'[c] = wakeups[c] + (IF c \in Range(fifo) THEN 1 ELSE 0)
       /\ \A c \in Contexts :
            rm_result[c] = "cleared" => wakeups'[c] = 0
       /\ waiting_contexts' = <<>>]_vars

\* a WakeupAll over two live contexts and a tombstone
C3_Witness ==
  /\ wl_last.op = "WakeupAll"
  /\ Len(wl_last.woken) >= 2
  /\ \E c \in Contexts : rm_result[c] = "cleared" /\ wakeups[c] = 0
  /\ waiting_contexts = <<>>

\* the slots of the deque that hold c
SlotsOf(c) == {i \in 1..Len(waiting_contexts) : waiting_contexts[i] = c}

Free == <<"free">>

\* the queue-length condition with > for >=
LengthExceeded(max_length, critical, size) ==
  max_length # 0 /\ ~critical /\ size > max_length

\* Schedule, lines 74-75: the queue-length overload condition
LengthOverloaded(max_length, critical, size) ==
  max_length # 0 /\ ~critical /\ size >= max_length

\* HandleOverload with no regard for IsCritical
CancelsCritical(action, critical) == action = "Cancel"

\* HandleOverload, lines 148-149: is the context cancelled
ShouldCancel(action, critical) == action = "Cancel" /\ ~critical

\* HandleOverload's effect on the context: RequestCancel(kOverload)
HandleOverloadContext(cx, action) ==
  IF ShouldCancel(action, cx.critical)
  THEN [cx EXCEPT !.cancel_overload = @ + 1]
  ELSE cx

\* HandleOverload's effect on the counter: AccountTaskOverload and
\* AccountTaskCancelOverload
HandleOverloadCounter(tc, cx, action) ==
  [tc EXCEPT !.overload = @ + 1,
             !.cancel_overload =
                @ + (IF ShouldCancel(action, cx.critical) THEN 1 ELSE 0)]

\* a Schedule that returns after HandleOverload, dropping the context
DropOnOverload(overloaded) == IF overloaded THEN "idle" ELSE "shutdown"

\* Schedule has no return after HandleOverload: it goes on to line 82
AfterLengthCheck(overloaded) == "shutdown"

\* a Schedule that tests is_running_ where it should test is_shutting_down_
StoppedRunning(shutting_down, running) == ~running

\* Schedule, line 82: if (is_shutting_down_)
ShutdownRequested(shutting_down, running) == shutting_down

\* SetTaskQueueWaitTimepoint: the clock is read when task_count is a
\* multiple of kTaskTimestampFrequency
QueueWaitTimepoint(count, clock) ==
  IF count % kTaskTimestampFrequency = 0 THEN clock ELSE Sentinel

\* the verdict with > for >=
WaitTimeExceeded(wait_time, max_wait_time) == wait_time > max_wait_time

\* CheckWaitTime, line 132
WaitTimeOverloaded(wait_time, max_wait_time) == wait_time >= max_wait_time

\* Schedule that leaves task_queue_size_ as it is
SizeNotCounted(size) == size

\* Schedule, line 90: ++task_queue_size_
SizeAfterSchedule(size) == size + 1

\* ProcessTasks, line 201
NeedsErase(has_failed, detached, finished) ==
  has_failed \/ (detached /\ finished)

\* Adopt without its fast path
AlwaysInserts(finished) == TRUE

\* Adopt, line 104: the handle is inserted unless the context is finished
AdoptInserts(finished) == ~finished

\* wait_dequeue_timed found nothing in any producer's queue
QueueEmpty(queue) == \A p \in DOMAIN queue : queue[p] = <<>>

\* the contexts on the task queue
Queued(queue) == UNION {Range(queue[p]) : p \in DOMAIN queue}

NoWorkerContext == [pc |-> "dequeue", ctx |-> Null, has_failed |-> FALSE,
                    wait_time |-> -1]

(***************************************************************************)
(* Task processor: construction and settings.                              *)
(***************************************************************************)
\* TaskProcessor::TaskProcessor, with the tasks created and not scheduled
TPConstructed(tasks, workers, producers, criticals) ==
  /\ is_running = TRUE
  /\ is_shutting_down = FALSE
  /\ task_queue_size = 0
  /\ task_queue_wait_time_overloaded = FALSE
  /\ task_queue = [p \in producers |-> <<>>]
  /\ detached_contexts = {}
  /\ detached_contexts_mutex = Free
  /\ task_counter = [overload |-> 0, cancel_overload |-> 0, switch_slow |-> 0]
  /\ context = [c \in tasks |->
                  [critical |-> c \in criticals, finished |-> FALSE,
                   detached |-> FALSE, timepoint |-> Sentinel,
                   cancel_overload |-> 0, cancel_shutdown |-> 0,
                   refs |-> 1, state |-> "idle"]]
  /\ sched = [t \in producers |-> [pc |-> "idle", ctx |-> Null]]
  /\ worker = [w \in workers |-> NoWorkerContext]
  /\ adopt = [c \in tasks |-> "user"]
  /\ dtor = "idle"
  /\ now = 1
  /\ shut_at_call = [c \in tasks |-> FALSE]

\* the settings as the constructor leaves them (lines 22-24)
DefaultSettings ==
  /\ max_task_queue_wait_time = 0
  /\ max_task_queue_wait_length = 0
  /\ overload_action = "Ignore"

\* the thread_local task_count of a producing thread, which counts its
\* Schedule calls on every processor: at a sampled call, or one before it
InitialTaskCounts == {0, kTaskTimestampFrequency - 1}

(***************************************************************************)
(* Task processor: Schedule.                                               *)
(***************************************************************************)
\* Schedule(context), lines 72-81: the call and the queue-length check
ScheduleCheckLength(t, c) ==
  /\ sched[t].pc = "idle"
  /\ context[c].state = "idle"
  /\ dtor # "done"
  /\ budget > 0
  /\ budget' = budget - 1
  /\ LET over == LengthOverloaded(max_task_queue_wait_length,
                                  context[c].critical, task_queue_size)
         cx == [context[c] EXCEPT !.state = "runnable"]
     IN /\ context' = [context EXCEPT ![c] =
                         IF over THEN HandleOverloadContext(cx, overload_action)
                         ELSE cx]
        /\ task_counter' =
             IF over
             THEN HandleOverloadCounter(task_counter, cx, overload_action)
             ELSE task_counter
        /\ sched' = [sched EXCEPT ![t] =
                       [pc |-> AfterLengthCheck(over), ctx |-> c]]
  /\ shut_at_call' = [shut_at_call EXCEPT ![c] = is_shutting_down]
  /\ UNCHANGED <<wl_vars, settings, step_count, is_running, is_shutting_down,
                 task_queue_size, task_queue_wait_time_overloaded, task_queue,
                 detached_contexts, detached_contexts_mutex, task_count,
                 worker, adopt, dtor, now>>

\* Schedule, lines 82-83
ScheduleCheckShutdown(t) ==
  /\ sched[t].pc = "shutdown"
  /\ context' = [context EXCEPT ![sched[t].ctx].cancel_shutdown =
                   @ + (IF ShutdownRequested(is_shutting_down, is_running)
                        THEN 1 ELSE 0)]
  /\ sched' = [sched EXCEPT ![t].pc = "count"]
  /\ UNCHANGED <<wl_vars, settings, step_count, budget, is_running, is_shutting_down,
                 task_queue_size, task_queue_wait_time_overloaded, task_queue,
                 detached_contexts, detached_contexts_mutex, task_counter,
                 task_count, worker, adopt, dtor, now, shut_at_call>>

\* Schedule, lines 85-90: SetTaskQueueWaitTimepoint, intrusive_ptr_add_ref,
\* ++task_queue_size_
ScheduleCount(t) ==
  /\ sched[t].pc = "count"
  /\ context' = [context EXCEPT
                   ![sched[t].ctx].timepoint =
                      QueueWaitTimepoint(task_count[t], now),
                   ![sched[t].ctx].refs = @ + 1]
  /\ task_count' = [task_count EXCEPT ![t] =
                      (@ + 1) % kTaskTimestampFrequency]
  /\ task_queue_size' = SizeAfterSchedule(task_queue_size)
  /\ sched' = [sched EXCEPT ![t].pc = "enqueue"]
  /\ UNCHANGED <<wl_vars, settings, step_count, budget, is_running, is_shutting_down,
                 task_queue_wait_time_overloaded, task_queue,
                 detached_contexts, detached_contexts_mutex, task_counter,
                 worker, adopt, dtor, now, shut_at_call>>

\* Schedule, line 92: task_queue_.enqueue(context)
ScheduleEnqueue(t) ==
  /\ sched[t].pc = "enqueue"
  /\ task_queue' = [task_queue EXCEPT ![t] = Append(@, sched[t].ctx)]
  /\ sched' = [sched EXCEPT ![t] = [pc |-> "idle", ctx |-> Null]]
  /\ UNCHANGED <<wl_vars, settings, step_count, budget, is_running, is_shutting_down,
                 task_queue_size, task_queue_wait_time_overloaded,
                 detached_contexts, detached_contexts_mutex, task_counter,
                 context, task_count, worker, adopt, dtor, now, shut_at_call>>

(***************************************************************************)
(* Task processor: the worker loop.                                        *)
(***************************************************************************)
\* a dequeue that takes the newest entry of a producer's queue
DequeueLast(w, p) ==
  /\ worker[w].pc = "dequeue"
  /\ task_queue[p] # <<>>
  /\ worker' = [worker EXCEPT ![w] =
                  [pc |-> "dec", ctx |-> task_queue[p][Len(task_queue[p])],
                   has_failed |-> FALSE, wait_time |-> -1]]
  /\ task_queue' = [task_queue EXCEPT ![p] = SubSeq(@, 1, Len(@) - 1)]
  /\ UNCHANGED <<wl_vars, settings, step_count, budget, is_running,
                 is_shutting_down, task_queue_size,
                 task_queue_wait_time_overloaded, detached_contexts,
                 detached_contexts_mutex, task_counter, context, sched,
                 task_count, adopt, dtor, now, shut_at_call>>

\* a dequeue that leaves the entry on the queue
DequeuePeek(w, p) ==
  /\ worker[w].pc = "dequeue"
  /\ task_queue[p] # <<>>
  /\ worker' = [worker EXCEPT ![w] =
                  [pc |-> "dec", ctx |-> Head(task_queue[p]),
                   has_failed |-> FALSE, wait_time |-> -1]]
  /\ UNCHANGED <<wl_vars, settings, step_count, budget, is_running,
                 is_shutting_down, task_queue_size, task_queue,
                 task_queue_wait_time_overloaded, detached_contexts,
                 detached_contexts_mutex, task_counter, context, sched,
                 task_count, adopt, dtor, now, shut_at_call>>

\* DequeueTask, line 176: wait_dequeue_timed produced the head of a
\* producer's queue
DequeueTask(w, p) ==
  /\ worker[w].pc = "dequeue"
  /\ task_queue[p] # <<>>
  /\ worker' = [worker EXCEPT ![w] =
                  [pc |-> "dec", ctx |-> Head(task_queue[p]),
                   has_failed |-> FALSE, wait_time |-> -1]]
  /\ task_queue' = [task_queue EXCEPT ![p] = Tail(@)]
  /\ UNCHANGED <<wl_vars, settings, step_count, budget, is_running, is_shutting_down, task_queue_size,
                 task_queue_wait_time_overloaded, detached_contexts,
                 detached_contexts_mutex, task_counter, context, sched,
                 task_count, adopt, dtor, now, shut_at_call>>

\* DequeueTask, line 176: wait_dequeue_timed timed out on an empty queue
DequeueTimeout(w) ==
  /\ worker[w].pc = "dequeue"
  /\ QueueEmpty(task_queue)
  /\ task_counter.switch_slow < MaxSlowSwitch \/ ~is_running
  /\ worker' = [worker EXCEPT ![w].pc = "running"]
  /\ UNCHANGED <<wl_vars, settings, step_count, budget, is_running, is_shutting_down, task_queue_size,
                 task_queue_wait_time_overloaded, task_queue,
                 detached_contexts, detached_contexts_mutex, task_counter,
                 context, sched, task_count, adopt, dtor, now, shut_at_call>>

\* DequeueTask, lines 176-179: after a timeout is_running_ is read; the loop
\* goes on with AccountTaskSwitchSlow, or DequeueTask returns nullptr and
\* ProcessTasks breaks (line 187)
DequeueCheckRunning(w) ==
  /\ worker[w].pc = "running"
  /\ IF is_running
     THEN /\ task_counter' = [task_counter EXCEPT !.switch_slow = @ + 1]
          /\ worker' = [worker EXCEPT ![w].pc = "dequeue"]
     ELSE /\ worker' = [worker EXCEPT ![w].pc = "exited"]
          /\ UNCHANGED task_counter
  /\ UNCHANGED <<wl_vars, settings, step_count, budget, is_running, is_shutting_down, task_queue_size,
                 task_queue_wait_time_overloaded, task_queue,
                 detached_contexts, detached_contexts_mutex, context, sched,
                 task_count, adopt, dtor, now, shut_at_call>>

\* ProcessTasks, line 188: --task_queue_size_
DecrementQueueSize(w) ==
  /\ worker[w].pc = "dec"
  /\ task_queue_size' = task_queue_size - 1
  /\ worker' = [worker EXCEPT ![w].pc = "measure"]
  /\ UNCHANGED <<wl_vars, settings, step_count, budget, is_running, is_shutting_down,
                 task_queue_wait_time_overloaded, task_queue,
                 detached_contexts, detached_contexts_mutex, task_counter,
                 context, sched, task_count, adopt, dtor, now, shut_at_call>>

\* CheckWaitTime, lines 119-136: the store to task_queue_wait_time_overloaded_
CheckWaitTimeMeasure(w) ==
  /\ worker[w].pc = "measure"
  /\ LET timepoint == context[worker[w].ctx].timepoint IN
       IF max_task_queue_wait_time = 0
       THEN /\ task_queue_wait_time_overloaded' = FALSE
            /\ worker' = [worker EXCEPT ![w].pc = "step"]
       ELSE IF timepoint # Sentinel
       THEN /\ task_queue_wait_time_overloaded' =
                 WaitTimeOverloaded(now - timepoint, max_task_queue_wait_time)
            /\ worker' = [worker EXCEPT ![w].pc = "handle",
                                        ![w].wait_time = now - timepoint]
       ELSE /\ UNCHANGED task_queue_wait_time_overloaded
            /\ worker' = [worker EXCEPT ![w].pc = "handle"]
  /\ UNCHANGED <<wl_vars, settings, step_count, budget, is_running, is_shutting_down, task_queue_size,
                 task_queue, detached_contexts, detached_contexts_mutex,
                 task_counter, context, sched, task_count, adopt, dtor, now,
                 shut_at_call>>

\* CheckWaitTime, lines 140-142: the load of task_queue_wait_time_overloaded_
\* and HandleOverload
CheckWaitTimeHandle(w) ==
  /\ worker[w].pc = "handle"
  /\ IF task_queue_wait_time_overloaded
     THEN /\ context' = [context EXCEPT ![worker[w].ctx] =
                           HandleOverloadContext(@, overload_action)]
          /\ task_counter' =
               HandleOverloadCounter(task_counter, context[worker[w].ctx],
                                     overload_action)
     ELSE UNCHANGED <<context, task_counter>>
  /\ worker' = [worker EXCEPT ![w].pc = "step"]
  /\ UNCHANGED <<wl_vars, settings, step_count, budget, is_running, is_shutting_down, task_queue_size,
                 task_queue_wait_time_overloaded, task_queue,
                 detached_contexts, detached_contexts_mutex, sched,
                 task_count, adopt, dtor, now, shut_at_call>>

\* the counts of a task after a DoStep call on it
Stepped(counts, c, outcome) ==
  IF c \in DOMAIN counts
  THEN [counts EXCEPT ![c].steps = @ + 1,
                      ![c].parks = @ + (IF outcome = "park" THEN 1 ELSE 0)]
  ELSE counts

\* ProcessTasks, lines 193-198: context->DoStep() finishes the task, parks
\* it, or throws (leaving is_finished either way): "throw" an exception
\* derived from std::exception, which line 195 catches, "terminate" one of
\* another type, which leaves the noexcept ProcessTasks (line 182) and ends
\* the process in std::terminate
DoStep(w, outcome, finished) ==
  /\ worker[w].pc = "step"
  /\ outcome = "finish" => finished
  /\ outcome = "park" => ~finished
  /\ context' = [context EXCEPT
                   ![worker[w].ctx].finished = finished,
                   ![worker[w].ctx].state =
                      CASE outcome = "finish" -> "finished"
                        [] outcome = "park" -> "idle"
                        [] OTHER -> "failed"]
  /\ worker' = [worker EXCEPT
                  ![w].pc = IF outcome = "terminate" THEN "terminated"
                            ELSE "latch",
                  ![w].has_failed = (outcome = "throw")]
  /\ shut_at_call' = [shut_at_call EXCEPT ![worker[w].ctx] = FALSE]
  /\ step_count' = Stepped(step_count, worker[w].ctx, outcome)
  /\ UNCHANGED <<wl_vars, settings, budget, is_running, is_shutting_down,
                 task_queue_size, task_queue_wait_time_overloaded, task_queue,
                 detached_contexts, detached_contexts_mutex, task_counter,
                 sched, task_count, adopt, dtor, now>>

\* ProcessTasks, line 201, and for a false condition the end of the
\* iteration, where the worker's handle is released
CheckLatch(w) ==
  /\ worker[w].pc = "latch"
  /\ IF NeedsErase(worker[w].has_failed, context[worker[w].ctx].detached,
                   context[worker[w].ctx].finished)
     THEN /\ worker' = [worker EXCEPT ![w].pc = "erase"]
          /\ UNCHANGED context
     ELSE /\ worker' = [worker EXCEPT ![w] = NoWorkerContext]
          /\ context' = [context EXCEPT ![worker[w].ctx].refs = @ - 1]
  /\ UNCHANGED <<wl_vars, settings, step_count, budget, is_running, is_shutting_down, task_queue_size,
                 task_queue_wait_time_overloaded, task_queue,
                 detached_contexts, detached_contexts_mutex, task_counter,
                 sched, task_count, adopt, dtor, now, shut_at_call>>

\* ProcessTasks, lines 202-205: erase under detached_contexts_mutex_, then
\* the end of the iteration
EraseDetached(w) ==
  /\ worker[w].pc = "erase"
  /\ detached_contexts_mutex = Free
  /\ detached_contexts' = detached_contexts \ {worker[w].ctx}
  /\ context' = [context EXCEPT ![worker[w].ctx].refs =
                   @ - 1 - (IF worker[w].ctx \in detached_contexts
                            THEN 1 ELSE 0)]
  /\ worker' = [worker EXCEPT ![w] = NoWorkerContext]
  /\ UNCHANGED <<wl_vars, settings, step_count, budget, is_running, is_shutting_down, task_queue_size,
                 task_queue_wait_time_overloaded, task_queue,
                 detached_contexts_mutex, task_counter, sched, task_count,
                 adopt, dtor, now, shut_at_call>>

(***************************************************************************)
(* Task processor: Adopt.                                                  *)
(***************************************************************************)
\* Adopt, lines 99-102: lock detached_contexts_mutex_, SetDetached
AdoptSetDetached(c) ==
  /\ adopt[c] = "user"
  /\ dtor # "done"
  /\ detached_contexts_mutex = Free
  /\ detached_contexts_mutex' = <<"adopt", c>>
  /\ context' = [context EXCEPT ![c].detached = TRUE]
  /\ adopt' = [adopt EXCEPT ![c] = "locked"]
  /\ UNCHANGED <<wl_vars, settings, step_count, budget, is_running, is_shutting_down, task_queue_size,
                 task_queue_wait_time_overloaded, task_queue,
                 detached_contexts, task_counter, sched, task_count, worker,
                 dtor, now, shut_at_call>>

\* Adopt, lines 104-108: a finished context is dropped, not inserted
AdoptCheckFinished(c) ==
  /\ adopt[c] = "locked"
  /\ IF AdoptInserts(context[c].finished)
     THEN /\ adopt' = [adopt EXCEPT ![c] = "insert"]
          /\ UNCHANGED <<context, detached_contexts_mutex>>
     ELSE /\ adopt' = [adopt EXCEPT ![c] = "dropped"]
          /\ detached_contexts_mutex' = Free
          /\ context' = [context EXCEPT ![c].refs = @ - 1]
  /\ UNCHANGED <<wl_vars, settings, step_count, budget, is_running, is_shutting_down, task_queue_size,
                 task_queue_wait_time_overloaded, task_queue,
                 detached_contexts, task_counter, sched, task_count, worker,
                 dtor, now, shut_at_call>>

\* Adopt, lines 109-112: insert, and unlock on return
AdoptInsert(c) ==
  /\ adopt[c] = "insert"
  /\ detached_contexts' = detached_contexts \cup {c}
  /\ detached_contexts_mutex' = Free
  /\ adopt' = [adopt EXCEPT ![c] = "inserted"]
  /\ UNCHANGED <<wl_vars, settings, step_count, budget, is_running, is_shutting_down, task_queue_size,
                 task_queue_wait_time_overloaded, task_queue, task_counter,
                 context, sched, task_count, worker, dtor, now, shut_at_call>>

(***************************************************************************)
(* Task processor: the destructor.                                         *)
(***************************************************************************)
\* the references the processor holds on a task: the user's handle, until
\* Adopt took or dropped it, is the one that is not the processor's
ProcessorRefs(c) ==
  context[c].refs
  - (IF adopt[c] \in {"user", "locked", "insert"} THEN 1 ELSE 0)

\* ~TaskProcessor, line 37
DestructorBegin ==
  /\ dtor = "idle"
  /\ is_shutting_down' = TRUE
  /\ dtor' = "cancel"
  /\ UNCHANGED <<wl_vars, settings, step_count, budget, is_running, task_queue_size,
                 task_queue_wait_time_overloaded, task_queue,
                 detached_contexts, detached_contexts_mutex, task_counter,
                 context, sched, task_count, worker, adopt, now, shut_at_call>>

\* ~TaskProcessor, lines 39-44
DestructorCancelDetached ==
  /\ dtor = "cancel"
  /\ detached_contexts_mutex = Free
  /\ context' = [c \in Tasks |->
                   IF c \in detached_contexts
                   THEN [context[c] EXCEPT !.cancel_shutdown = @ + 1]
                   ELSE context[c]]
  /\ dtor' = "stop"
  /\ UNCHANGED <<wl_vars, settings, step_count, budget, is_running, is_shutting_down, task_queue_size,
                 task_queue_wait_time_overloaded, task_queue,
                 detached_contexts, detached_contexts_mutex, task_counter,
                 sched, task_count, worker, adopt, now, shut_at_call>>

\* ~TaskProcessor, lines 47-49: WaitForExhaustion returns, drained or after
\* its 10 ms, and is_running_ is cleared
DestructorStop ==
  /\ dtor = "stop"
  /\ is_running' = FALSE
  /\ dtor' = "join"
  /\ UNCHANGED <<wl_vars, settings, step_count, budget, is_shutting_down, task_queue_size,
                 task_queue_wait_time_overloaded, task_queue,
                 detached_contexts, detached_contexts_mutex, task_counter,
                 context, sched, task_count, worker, adopt, now, shut_at_call>>

\* ~TaskProcessor, lines 51-55: every worker is joined
DestructorJoin ==
  /\ dtor = "join"
  /\ \A w \in Workers : worker[w].pc = "exited"
  /\ dtor' = "done"
  /\ UNCHANGED <<wl_vars, settings, step_count, budget, is_running, is_shutting_down, task_queue_size,
                 task_queue_wait_time_overloaded, task_queue,
                 detached_contexts, detached_contexts_mutex, task_counter,
                 context, sched, task_count, worker, adopt, now, shut_at_call>>

\* the steady clock advances
Tick ==
  /\ now < MaxTime
  /\ now' = now + 1
  /\ UNCHANGED <<wl_vars, settings, step_count, budget, is_running, is_shutting_down, task_queue_size,
                 task_queue_wait_time_overloaded, task_queue,
                 detached_contexts, detached_contexts_mutex, task_counter,
                 context, sched, task_count, worker, adopt, dtor, shut_at_call>>

\* the wait-list alone, beside a processor as constructed
InitWL ==
  /\ WLInit
  /\ DefaultSettings
  /\ TPConstructed({1}, {"w1"}, {"p1"}, {})
  /\ step_count = <<>>
  /\ task_count = [t \in {"p1"} |-> 0]
  /\ budget = 0

SpecWL == InitWL /\ [][WLNext]_vars

(***************************************************************************)
(* Scheduling, the worker loop and shutdown, with the latency check off.   *)
(***************************************************************************)
InitSchedule ==
  /\ WLInit
  /\ max_task_queue_wait_time = 0
  /\ max_task_queue_wait_length \in {0, MaxQueueLimit}
  /\ overload_action \in {"Ignore", "Cancel"}
  /\ TPConstructed(1..SchedTasks, {"w1"}, {"p1"}, {1})
  /\ step_count = <<>>
  /\ task_count = [t \in {"p1"} |-> 0]
  /\ budget = MaxSchedules

ScheduleNext ==
  \/ \E t \in Producers, c \in Tasks : ScheduleCheckLength(t, c)
  \/ \E t \in Producers : ScheduleCheckShutdown(t)
  \/ \E t \in Producers : ScheduleCount(t)
  \/ \E t \in Producers : ScheduleEnqueue(t)
  \/ \E w \in Workers, p \in Producers : DequeueTask(w, p)
  \/ \E w \in Workers : DequeueTimeout(w)
  \/ \E w \in Workers : DequeueCheckRunning(w)
  \/ \E w \in Workers : DecrementQueueSize(w)
  \/ \E w \in Workers : CheckWaitTimeMeasure(w)
  \/ \E w \in Workers, o \in {"finish", "park", "throw"}, f \in BOOLEAN :
       DoStep(w, o, f)
  \/ \E w \in Workers : CheckLatch(w)
  \/ \E w \in Workers : EraseDetached(w)
  \/ DestructorBegin
  \/ DestructorCancelDetached
  \/ DestructorStop
  \/ DestructorJoin

SpecSchedule == InitSchedule /\ [][ScheduleNext]_vars

(***************************************************************************)
(* The latency check: one producer, one worker, the clock.                 *)
(***************************************************************************)
InitLatency ==
  /\ WLInit
  /\ max_task_queue_wait_time = WaitTimeLimit
  /\ max_task_queue_wait_length \in {0, MaxQueueLimit}
  /\ overload_action \in {"Ignore", "Cancel"}
  /\ TPConstructed(1..SchedTasks, {"w1"}, {"p1"}, {1})
  /\ step_count = <<>>
  /\ task_count \in [{"p1"} -> InitialTaskCounts]
  /\ budget = MaxSchedules

LatencyNext ==
  \/ \E t \in Producers, c \in Tasks : ScheduleCheckLength(t, c)
  \/ \E t \in Producers : ScheduleCheckShutdown(t)
  \/ \E t \in Producers : ScheduleCount(t)
  \/ \E t \in Producers : ScheduleEnqueue(t)
  \/ \E w \in Workers, p \in Producers : DequeueTask(w, p)
  \/ \E w \in Workers : DequeueTimeout(w)
  \/ \E w \in Workers : DequeueCheckRunning(w)
  \/ \E w \in Workers : DecrementQueueSize(w)
  \/ \E w \in Workers : CheckWaitTimeMeasure(w)
  \/ \E w \in Workers : CheckWaitTimeHandle(w)
  \/ \E w \in Workers, o \in {"finish", "park", "throw"}, f \in BOOLEAN :
       DoStep(w, o, f)
  \/ \E w \in Workers : CheckLatch(w)
  \/ \E w \in Workers : EraseDetached(w)
  \/ Tick

SpecLatency == InitLatency /\ [][LatencyNext]_vars

(***************************************************************************)
(* The latency check with two workers, each fed by a producer of its own   *)
(* whose first Schedule call samples the clock.                            *)
(***************************************************************************)
InitLatencyRace ==
  /\ WLInit
  /\ max_task_queue_wait_time = WaitTimeLimit
  /\ max_task_queue_wait_length = 0
  /\ overload_action = "Cancel"
  /\ TPConstructed(1..2, {"w1", "w2"}, {"p1", "p2"}, {})
  /\ step_count = <<>>
  /\ task_count = [t \in {"p1", "p2"} |-> 0]
  /\ budget = 2

SpecLatencyRace == InitLatencyRace /\ [][LatencyNext]_vars

(***************************************************************************)
(* CheckWaitTime with the latency check off or on, two workers.            *)
(***************************************************************************)
InitWaitTime ==
  /\ WLInit
  /\ max_task_queue_wait_time \in {0, WaitTimeLimit}
  /\ max_task_queue_wait_length = 0
  /\ overload_action \in {"Ignore", "Cancel"}
  /\ TPConstructed(1..2, {"w1", "w2"}, {"p1"}, {1})
  /\ step_count = <<>>
  /\ task_count \in [{"p1"} -> InitialTaskCounts]
  /\ budget = 2

SpecWaitTime == InitWaitTime /\ [][LatencyNext]_vars

(***************************************************************************)
(* Adopt beside Schedule and the worker loop.                              *)
(***************************************************************************)
InitAdopt ==
  /\ WLInit
  /\ DefaultSettings
  /\ TPConstructed(1..AdoptTasks, {"w1"}, {"p1"}, {})
  /\ step_count = <<>>
  /\ task_count = [t \in {"p1"} |-> 0]
  /\ budget = MaxSchedules

AdoptNext ==
  \/ \E t \in Producers, c \in Tasks : ScheduleCheckLength(t, c)
  \/ \E t \in Producers : ScheduleCheckShutdown(t)
  \/ \E t \in Producers : ScheduleCount(t)
  \/ \E t \in Producers : ScheduleEnqueue(t)
  \/ \E w \in Workers, p \in Producers : DequeueTask(w, p)
  \/ \E w \in Workers : DequeueTimeout(w)
  \/ \E w \in Workers : DequeueCheckRunning(w)
  \/ \E w \in Workers : DecrementQueueSize(w)
  \/ \E w \in Workers : CheckWaitTimeMeasure(w)
  \/ \E w \in Workers, o \in {"finish", "park", "throw"}, f \in BOOLEAN :
       DoStep(w, o, f)
  \/ \E w \in Workers : CheckLatch(w)
  \/ \E w \in Workers : EraseDetached(w)
  \/ \E c \in Tasks : AdoptSetDetached(c)
  \/ \E c \in Tasks : AdoptCheckFinished(c)
  \/ \E c \in Tasks : AdoptInsert(c)

SpecAdopt == InitAdopt /\ [][AdoptNext]_vars

(***************************************************************************)
(* Shutdown beside Schedule, the worker loop and Adopt.                    *)
(***************************************************************************)
ShutdownNext ==
  \/ \E t \in Producers, c \in Tasks : ScheduleCheckLength(t, c)
  \/ \E t \in Producers : ScheduleCheckShutdown(t)
  \/ \E t \in Producers : ScheduleCount(t)
  \/ \E t \in Producers : ScheduleEnqueue(t)
  \/ \E w \in Workers, p \in Producers : DequeueTask(w, p)
  \/ \E w \in Workers : DequeueTimeout(w)
  \/ \E w \in Workers : DequeueCheckRunning(w)
  \/ \E w \in Workers : DecrementQueueSize(w)
  \/ \E w \in Workers : CheckWaitTimeMeasure(w)
  \/ \E w \in Workers, o \in {"finish", "park", "throw"}, f \in BOOLEAN :
       DoStep(w, o, f)
  \/ \E w \in Workers : CheckLatch(w)
  \/ \E w \in Workers : EraseDetached(w)
  \/ \E c \in Tasks : AdoptSetDetached(c)
  \/ \E c \in Tasks : AdoptCheckFinished(c)
  \/ \E c \in Tasks : AdoptInsert(c)
  \/ DestructorBegin
  \/ DestructorCancelDetached
  \/ DestructorStop
  \/ DestructorJoin

SpecShutdown == InitAdopt /\ [][ShutdownNext]_vars

(***************************************************************************)
(* Adopt, Schedule and the worker loop, with every kind of exception       *)
(* leaving DoStep.                                                         *)
(***************************************************************************)
StepFailureNext ==
  \/ \E t \in Producers, c \in Tasks : ScheduleCheckLength(t, c)
  \/ \E t \in Producers : ScheduleCheckShutdown(t)
  \/ \E t \in Producers : ScheduleCount(t)
  \/ \E t \in Producers : ScheduleEnqueue(t)
  \/ \E w \in Workers, p \in Producers : DequeueTask(w, p)
  \/ \E w \in Workers : DequeueTimeout(w)
  \/ \E w \in Workers : DequeueCheckRunning(w)
  \/ \E w \in Workers : DecrementQueueSize(w)
  \/ \E w \in Workers : CheckWaitTimeMeasure(w)
  \/ \E w \in Workers, o \in {"finish", "park", "throw", "terminate"},
        f \in BOOLEAN : DoStep(w, o, f)
  \/ \E w \in Workers : CheckLatch(w)
  \/ \E w \in Workers : EraseDetached(w)
  \/ \E c \in Tasks : AdoptSetDetached(c)
  \/ \E c \in Tasks : AdoptCheckFinished(c)
  \/ \E c \in Tasks : AdoptInsert(c)

SpecStepFailure == InitAdopt /\ [][StepFailureNext]_vars

(***************************************************************************)
(* The queue-length scenario: one thread schedules n non-critical tasks    *)
(* and then a critical one, while no worker dequeues.                      *)
(***************************************************************************)
InitLength ==
  /\ WLInit
  /\ max_task_queue_wait_time = 0
  /\ max_task_queue_wait_length \in 1..LenQueueLimit
  /\ overload_action = "Cancel"
  /\ \E n \in 1..LenTasks :
       /\ TPConstructed(1..(n + 1), {"w1"}, {"p1"}, {n + 1})
       /\ step_count = <<>>
       /\ budget = n + 1
  /\ task_count = [t \in {"p1"} |-> 0]

\* the tasks are scheduled one after another, the critical one last
ScheduleInOrder(t) ==
  \E c \in Tasks :
    /\ \A d \in Tasks : d < c => context[d].state # "idle"
    /\ ScheduleCheckLength(t, c)

LengthNext ==
  \/ \E t \in Producers : ScheduleInOrder(t)
  \/ \E t \in Producers : ScheduleCheckShutdown(t)
  \/ \E t \in Producers : ScheduleCount(t)
  \/ \E t \in Producers : ScheduleEnqueue(t)

SpecLength == InitLength /\ [][LengthNext]_vars

\* the tasks whose Schedule call has made its queue-length check
Checked == {c \in Tasks : context[c].state = "runnable"}

\* the non-critical tasks scheduled after the first L
Late == {c \in Tasks : ~context[c].critical /\ c > max_task_queue_wait_length}

\* C5: with limit L, action Cancel and no worker dequeuing, the first L
\* non-critical contexts scheduled receive no cancellation, every later
\* non-critical one receives exactly one RequestCancel(Overload), the
\* critical one scheduled last is not cancelled, and the overload count and
\* the cancelled-due-to-overload count equal the number of later ones.
C5_LengthOverload ==
  /\ \A c \in Checked :
       /\ context[c].cancel_overload = (IF c \in Late THEN 1 ELSE 0)
       /\ context[c].cancel_shutdown = 0
  /\ task_counter.overload = Cardinality(Checked \cap Late)
  /\ task_counter.cancel_overload = Cardinality(Checked \cap Late)

\* the scenario of the specification: L = 4, n = 10, all eleven enqueued,
\* six cancelled
C5_Witness ==
  /\ max_task_queue_wait_length = 4
  /\ Cardinality(Tasks) = 11
  /\ Len(task_queue["p1"]) = 11
  /\ task_counter.overload = 6
  /\ task_counter.cancel_overload = 6
  /\ \A c \in 5..10 : context[c].cancel_overload = 1
  /\ context[11].critical /\ context[11].cancel_overload = 0

(***************************************************************************)
(* Scheduling and shutdown: the properties.                                *)
(***************************************************************************)
\* the Schedule call of thread t returns in this step
ScheduleReturns(t) == sched[t].pc # "idle" /\ sched'[t].pc = "idle"

\* a Schedule call takes task c in this step
ScheduleBegins(c) ==
  context[c].state = "idle" /\ context'[c].state = "runnable"

\* the places a runnable task is in: Schedule calls in progress, queue
\* entries, workers that have not stepped it yet
Placements(c) ==
  Cardinality({t \in Producers : sched[t].ctx = c})
  + Cardinality({<<p, i>> \in Producers \X (1..budget + Cardinality(Tasks)) :
                   i <= Len(task_queue[p]) /\ task_queue[p][i] = c})
  + Cardinality({w \in Workers :
                   worker[w].ctx = c
                   /\ worker[w].pc \in {"dec", "measure", "handle", "step"}})

\* the workers that hold task c and have not stepped it yet
HeldUnstepped(c) ==
  {w \in Workers : worker[w].ctx = c
                   /\ worker[w].pc \in {"dec", "measure", "handle", "step"}}

\* C4: every Schedule(ctx) places ctx on the task queue exactly once,
\* whatever the overload and shutdown state: a scheduled context is in one
\* place (its call, the queue, a worker) until it is stepped, the call is
\* never blocked and returns only by enqueuing ctx, and when the
\* queue-length condition holds the overload handler runs before that.
C4_EnqueuedOnce ==
  /\ [](\A c \in Tasks :
          /\ context[c].state = "runnable" => Placements(c) = 1
          /\ context[c].state # "runnable" => Placements(c) = 0)
  /\ [](\A t \in Producers :
          sched[t].pc # "idle" =>
            ENABLED (\/ ScheduleCheckShutdown(t)
                     \/ ScheduleCount(t)
                     \/ ScheduleEnqueue(t)))
  /\ [][/\ \A t \in Producers :
            ScheduleReturns(t) =>
              /\ sched[t].pc = "enqueue"
              /\ task_queue' =
                   [task_queue EXCEPT ![t] = Append(@, sched[t].ctx)]
        /\ \A c \in Tasks :
            ScheduleBegins(c) =>
              /\ \E t \in Producers :
                   sched'[t].ctx = c /\ sched'[t].pc # "idle"
              /\ (/\ max_task_queue_wait_length # 0
                  /\ ~context[c].critical
                  /\ task_queue_size >= max_task_queue_wait_length) =>
                   /\ task_counter'.overload = task_counter.overload + 1
                   /\ c \notin Queued(task_queue')]_vars

\* a non-critical context, cancelled for overload by its Schedule call made
\* during shutdown, is on the queue
C4_Witness ==
  \E c \in Tasks :
    /\ c \in Queued(task_queue)
    /\ context[c].cancel_overload >= 1
    /\ context[c].cancel_shutdown >= 1
    /\ task_counter.overload >= 1

\* C6: a context whose Schedule call began with is_shutting_down set has
\* received RequestCancel(Shutdown) from line 83 on: before it is enqueued,
\* while it is queued, and when a worker holds it unstepped.
C6_ShutdownCancelBeforeEnqueue ==
  \A c \in Tasks :
    (/\ shut_at_call[c]
     /\ \/ \E t \in Producers :
             sched[t].ctx = c /\ sched[t].pc \in {"count", "enqueue"}
        \/ c \in Queued(task_queue)
        \/ HeldUnstepped(c) # {})
      => context[c].cancel_shutdown >= 1

\* a worker is about to step a context scheduled during shutdown
C6_Witness ==
  \E c \in Tasks, w \in Workers :
    /\ shut_at_call[c]
    /\ worker[w].ctx = c
    /\ worker[w].pc = "step"

\* C7 as claimed: a context enqueued while is_shutting_down is set has been
\* cancelled with Shutdown before, and when the destructor has returned the
\* processor holds no task any more.
C7_ShutdownDuringSchedule ==
  /\ [][\A t \in Producers :
          (ScheduleReturns(t) /\ is_shutting_down) =>
            context[sched[t].ctx].cancel_shutdown >= 1]_vars
  /\ [](dtor = "done" => \A c \in Tasks : ProcessorRefs(c) = 0)

(***************************************************************************)
(* The latency check: the properties.                                      *)
(***************************************************************************)
\* worker w leaves CheckWaitTime (lines 140-142) in this step
CheckWaitTimeReturns(w) == worker[w].pc = "handle" /\ worker'[w].pc = "step"

\* worker w makes the store of line 132 in this step
CheckWaitTimeStores(w) ==
  /\ worker[w].pc = "measure" /\ worker'[w].pc = "handle"
  /\ context[worker[w].ctx].timepoint # Sentinel

\* C8: with overload_action = Cancel and max_task_queue_wait_time = T > 0,
\* every non-critical context a worker dequeues with a real timepoint and a
\* measured wait above T receives RequestCancel(Overload) in CheckWaitTime,
\* before the worker calls DoStep on it.
C8_LatencyCancel ==
  [][\A w \in Workers :
       (/\ CheckWaitTimeReturns(w)
        /\ overload_action = "Cancel"
        /\ max_task_queue_wait_time > 0
        /\ ~context[worker[w].ctx].critical
        /\ worker[w].wait_time > max_task_queue_wait_time)
       => context'[worker[w].ctx].cancel_overload =
            context[worker[w].ctx].cancel_overload + 1]_vars

\* C9: a critical context never receives RequestCancel(Overload), whatever
\* the settings; a critical context with a real timepoint and a wait of at
\* least the threshold sets task_queue_wait_time_overloaded, a context with
\* the sentinel timepoint leaves the flag as it is, and a non-critical
\* context that leaves CheckWaitTime with the flag set is cancelled with
\* Overload under action Cancel.
C9_CriticalSparedFlagKept ==
  /\ [](\A c \in Tasks : context[c].critical => context[c].cancel_overload = 0)
  /\ [][\A w \in Workers :
          /\ (/\ CheckWaitTimeStores(w)
              /\ context[worker[w].ctx].critical
              /\ now - context[worker[w].ctx].timepoint
                   >= max_task_queue_wait_time)
             => task_queue_wait_time_overloaded'
          /\ (/\ worker[w].pc = "measure"
              /\ worker'[w].pc = "handle"
              /\ context[worker[w].ctx].timepoint = Sentinel)
             => UNCHANGED task_queue_wait_time_overloaded
          /\ worker[w].pc = worker'[w].pc
             => UNCHANGED task_queue_wait_time_overloaded
          /\ (/\ CheckWaitTimeReturns(w)
              /\ task_queue_wait_time_overloaded
              /\ overload_action = "Cancel"
              /\ ~context[worker[w].ctx].critical)
             => context'[worker[w].ctx].cancel_overload =
                  context[worker[w].ctx].cancel_overload + 1]_vars

\* the critical task 1, sampled, ran after a wait of at least the threshold
\* and was not cancelled; task 2 followed it with the sentinel timepoint and
\* has left CheckWaitTime cancelled
C9_Witness ==
  /\ overload_action = "Cancel"
  /\ max_task_queue_wait_length = 0
  /\ context[1].critical /\ context[1].state = "finished"
  /\ context[1].timepoint # Sentinel
  /\ context[1].cancel_overload = 0
  /\ task_counter.overload = 2
  /\ \E w \in Workers :
       /\ worker[w].pc = "step"
       /\ worker[w].ctx = 2
       /\ ~context[2].critical
       /\ context[2].timepoint = Sentinel
       /\ context[2].cancel_overload = 1

(***************************************************************************)
(* Adopt and the finishing step: the properties.                           *)
(***************************************************************************)
\* Adopt returned for c and no worker iteration holds c
Settled(c) ==
  /\ adopt[c] \in {"dropped", "inserted"}
  /\ \A w \in Workers : worker[w].ctx # c

\* C10: Adopt drops the handle only of a context it saw finished; and once
\* Adopt returned and the worker iteration that ran the finishing step is
\* over, the detached set does not contain the context and the processor
\* holds no reference to it; the context leaves the set only in the erase of
\* the worker that holds it.
C10_AdoptLatch ==
  /\ [](\A c \in Tasks :
          /\ adopt[c] = "dropped" => context[c].finished
          /\ (Settled(c) /\ context[c].finished) =>
               (c \notin detached_contexts /\ ProcessorRefs(c) = 0))
  /\ [][\A c \in Tasks :
          (c \in detached_contexts /\ c \notin detached_contexts') =>
            \E w \in Workers : worker[w].pc = "erase" /\ worker[w].ctx = c]_vars

\* Adopt inserted the context before the finishing step, and the worker that
\* ran the step has erased it
C10_Witness ==
  \E c \in Tasks :
    /\ adopt[c] = "inserted"
    /\ context[c].state = "finished"
    /\ Settled(c)
    /\ c \notin detached_contexts
    /\ context[c].refs = 0

(***************************************************************************)
(* Ordering: one producer schedules tasks 1, 2, ... in this order, each    *)
(* once, onto a processor with two workers.                                *)
(***************************************************************************)
InitOrder ==
  /\ WLInit
  /\ DefaultSettings
  /\ TPConstructed(1..OrderTasks, {"w1", "w2"}, {"p1"}, {})
  /\ step_count = <<>>
  /\ task_count = [t \in {"p1"} |-> 0]
  /\ budget = OrderTasks

OrderNext ==
  \/ \E t \in Producers : ScheduleInOrder(t)
  \/ \E t \in Producers : ScheduleCheckShutdown(t)
  \/ \E t \in Producers : ScheduleCount(t)
  \/ \E t \in Producers : ScheduleEnqueue(t)
  \/ \E w \in Workers, p \in Producers : DequeueTask(w, p)
  \/ \E w \in Workers : DequeueTimeout(w)
  \/ \E w \in Workers : DequeueCheckRunning(w)
  \/ \E w \in Workers : DecrementQueueSize(w)
  \/ \E w \in Workers : CheckWaitTimeMeasure(w)
  \/ \E w \in Workers, o \in {"finish", "throw"}, f \in BOOLEAN :
       DoStep(w, o, f)
  \/ \E w \in Workers : CheckLatch(w)
  \/ \E w \in Workers : EraseDetached(w)

SpecOrder == InitOrder /\ [][OrderNext]_vars

(***************************************************************************)
(* Parking: tasks park themselves on the wait-list inside DoStep and are   *)
(* woken through it, on a processor with two workers. What a TaskContext   *)
(* does is taken from its contract: to park is to insert oneself into a    *)
(* wait-list and return from the step; Wakeup moves a parked context to    *)
(* runnable and schedules it.                                              *)
(***************************************************************************)
InitPark ==
  /\ WLInit
  /\ DefaultSettings
  /\ TPConstructed(1..ParkTasks, {"w1", "w2"}, {"p1"}, {})
  /\ step_count = [c \in 1..ParkTasks |->
                     [steps |-> 0, parks |-> 0, appends |-> 0]]
  /\ task_count = [t \in {"p1"} |-> 0]
  /\ budget = MaxSchedules + 1

\* the running task has appended itself to the wait-list in this step
AppendedInStep(c) == step_count[c].appends = step_count[c].parks + 1

\* inside DoStep the task takes the primitive's lock and calls
\* WaitList::Append (wait_list.cpp, line 14) on itself
ParkAppend(w) ==
  /\ worker[w].pc = "step"
  /\ LET c == worker[w].ctx IN
    /\ ~AppendedInStep(c)
    /\ LockAvailable(wl_lock)
    /\ Len(waiting_contexts) < MaxSlots
    /\ waiting_contexts' = Append(waiting_contexts, c)
    /\ wakeups' = [wakeups EXCEPT ![c] = 0]
    /\ rm_result' = [rm_result EXCEPT ![c] = "none"]
    /\ fifo' = Append(Without(fifo, c), c)
    /\ wl_last' = [op |-> "Append", woken |-> <<>>]
    /\ step_count' = [step_count EXCEPT ![c].appends = @ + 1]
    /\ UNCHANGED <<wl_lock, rm_pc, rm_it, settings, is_running,
                   is_shutting_down, task_queue_size,
                   task_queue_wait_time_overloaded, task_queue,
                   detached_contexts, detached_contexts_mutex, task_counter,
                   context, sched, task_count, worker, adopt, dtor, now,
                   budget, shut_at_call>>

\* DoStep returns with the task parked
ParkStep(w) ==
  /\ worker[w].pc = "step"
  /\ AppendedInStep(worker[w].ctx)
  /\ DoStep(w, "park", FALSE)

\* DoStep returns with the task ended
LastStep(w, outcome, finished) ==
  /\ worker[w].pc = "step"
  /\ ~AppendedInStep(worker[w].ctx)
  /\ outcome \in {"finish", "throw"}
  /\ DoStep(w, outcome, finished)

\* the first Schedule of a task
ScheduleNew(t, c) ==
  /\ step_count[c].steps = 0
  /\ rm_result[c] = "unlisted"
  /\ ScheduleCheckLength(t, c)

\* TaskContext::Wakeup(kWaitList) of a woken context: once parked it is
\* scheduled
WakeupSchedule(t, c) ==
  /\ wakeups[c] >= 1
  /\ ScheduleCheckLength(t, c)

ParkNext ==
  \/ \E t \in Producers, c \in Tasks : ScheduleNew(t, c)
  \/ \E t \in Producers, c \in Tasks : WakeupSchedule(t, c)
  \/ \E t \in Producers : ScheduleCheckShutdown(t)
  \/ \E t \in Producers : ScheduleCount(t)
  \/ \E t \in Producers : ScheduleEnqueue(t)
  \/ \E w \in Workers, p \in Producers : DequeueTask(w, p)
  \/ \E w \in Workers : DequeueTimeout(w)
  \/ \E w \in Workers : DequeueCheckRunning(w)
  \/ \E w \in Workers : DecrementQueueSize(w)
  \/ \E w \in Workers : CheckWaitTimeMeasure(w)
  \/ \E w \in Workers : ParkAppend(w)
  \/ \E w \in Workers : ParkStep(w)
  \/ \E w \in Workers, o \in {"finish", "throw"}, f \in BOOLEAN :
       LastStep(w, o, f)
  \/ \E w \in Workers : CheckLatch(w)
  \/ \E w \in Workers : EraseDetached(w)
  \/ LockPrimitive(1)
  \/ UnlockPrimitive(1)
  \/ WakeupOne(1)
  \/ WakeupAll(1)

SpecPark == InitPark /\ [][ParkNext]_vars

(***************************************************************************)
(* Shutdown: the properties.                                               *)
(***************************************************************************)
\* the destructor is past its loop over detached_contexts_ (lines 39-44)
DetachedCancelled == dtor \in {"stop", "join", "done"}

\* C11: after the destructor has begun, every context of the detached set
\* receives exactly one RequestCancel(Shutdown) from the processor: the
\* destructor's loop gives one to each context that is in the set, and no
\* context of the set ever has a second one, be it from a Schedule made
\* while is_shutting_down is set.
C11_OneShutdownCancel ==
  /\ [][(dtor = "cancel" /\ dtor' = "stop") =>
          \A c \in detached_contexts :
            context'[c].cancel_shutdown = context[c].cancel_shutdown + 1]_vars
  /\ [](DetachedCancelled =>
          \A c \in detached_contexts : context[c].cancel_shutdown <= 1)

\* worker w leaves the loop of ProcessTasks in this step
WorkerExits(w) == worker[w].pc # "exited" /\ worker'[w].pc = "exited"

\* C12: a worker leaves its loop only on a dequeue that timed out with
\* is_running false, a context it dequeued is stepped before it dequeues
\* again or leaves, and when every worker is joined no context is left on
\* the task queue, not counting a context whose Schedule call was made after
\* shutdown had begun.
C12_WorkersLeaveNothing ==
  /\ [][\A w \in Workers :
          /\ WorkerExits(w) => worker[w].pc = "running" /\ ~is_running
          /\ (worker[w].pc \in {"dec", "measure", "handle"}) =>
               worker'[w].ctx = worker[w].ctx /\ ~WorkerExits(w)]_vars
  /\ [](dtor = "done" => \A c \in Queued(task_queue) : shut_at_call[c])

\* the iteration of worker w that holds a context ends in this step
IterationEnds(w) == worker[w].ctx # Null /\ worker'[w].ctx = Null

\* C15: a context on the task queue or held by a worker has a reference
\* count of at least 1; Schedule adds exactly one reference before it
\* enqueues; a dequeue adds none, and the end of the worker's iteration
\* releases that one reference (and the detached set's, when it erases);
\* and no entry stays on the queue for good, enqueued during shutdown or
\* not: the queue is empty once every worker has left its loop.
C15_QueueReference ==
  /\ [](\A c \in Tasks :
          (c \in Queued(task_queue) \/ \E w \in Workers : worker[w].ctx = c)
            => context[c].refs >= 1)
  /\ [][\A t \in Producers :
          (sched[t].pc = "count" /\ sched'[t].pc = "enqueue") =>
            context'[sched[t].ctx].refs = context[sched[t].ctx].refs + 1]_vars
  /\ [][\A w \in Workers :
          /\ (worker[w].pc = "dequeue" /\ worker'[w].ctx # Null) =>
               context'[worker'[w].ctx].refs = context[worker'[w].ctx].refs
          /\ IterationEnds(w) =>
               context'[worker[w].ctx].refs =
                 context[worker[w].ctx].refs - 1
                 - (IF worker[w].ctx \in detached_contexts
                       /\ worker[w].ctx \notin detached_contexts'
                    THEN 1 ELSE 0)]_vars
  /\ []((\A w \in Workers : worker[w].pc = "exited")
          => QueueEmpty(task_queue))

(***************************************************************************)
(* CheckWaitTime: the function.                                            *)
(***************************************************************************)
\* worker w runs lines 119-136 of CheckWaitTime in this step
CheckWaitTimeBegins(w) == worker[w].pc = "measure" /\ worker'[w].pc # "measure"

\* C17: CheckWaitTime sets task_queue_wait_time_overloaded in these ways and
\* in no other: with max_task_queue_wait_time = 0 the flag becomes false and
\* the call returns without HandleOverload; otherwise a real timepoint makes
\* the flag (wait >= threshold) and the sentinel leaves it as it was; and
\* HandleOverload is invoked on the context exactly when the flag is then
\* true. No other step of the processor writes the flag.
C17_CheckWaitTimeFlag ==
  [][/\ \A w \in Workers :
          /\ CheckWaitTimeBegins(w) =>
               LET timepoint == context[worker[w].ctx].timepoint IN
                 IF max_task_queue_wait_time = 0
                 THEN /\ ~task_queue_wait_time_overloaded'
                      /\ worker'[w].pc = "step"
                      /\ UNCHANGED <<context, task_counter>>
                 ELSE IF timepoint # Sentinel
                 THEN task_queue_wait_time_overloaded' =
                        (now - timepoint >= max_task_queue_wait_time)
                 ELSE UNCHANGED task_queue_wait_time_overloaded
          /\ CheckWaitTimeReturns(w) =>
               task_counter'.overload = task_counter.overload
                 + (IF task_queue_wait_time_overloaded THEN 1 ELSE 0)
     /\ task_queue_wait_time_overloaded' # task_queue_wait_time_overloaded
          => \E w \in Workers : CheckWaitTimeBegins(w)]_vars

\* a context whose measured wait equals the threshold has left CheckWaitTime
\* with the flag set and HandleOverload invoked
C17_Witness ==
  \E w \in Workers :
    /\ worker[w].pc = "step"
    /\ max_task_queue_wait_time > 0
    /\ worker[w].wait_time = max_task_queue_wait_time
    /\ task_queue_wait_time_overloaded
    /\ task_counter.overload >= 1

(***************************************************************************)
(* The worker loop: the properties.                                        *)
(***************************************************************************)
\* worker w acts on the outcome of a timed-out dequeue in this step
TimedOutAttemptEnds(w) == worker[w].pc = "running" /\ worker'[w].pc # "running"

\* C18: every dequeue attempt that times out without an item increments the
\* slow-switch counter by one, the attempt after which the worker leaves
\* because is_running is false included.
C18_SlowSwitchCounts ==
  [][\A w \in Workers :
       TimedOutAttemptEnds(w) =>
         task_counter'.switch_slow = task_counter.switch_slow + 1]_vars

\* worker w returns from DoStep in this step
DoStepReturns(w) == worker[w].pc = "step" /\ worker'[w].pc # "step"

\* C19: a failure of DoStep stays in the worker: has_failed is set and the
\* worker goes on to the latch; there, finished or not, detached or not, it
\* takes detached_contexts_mutex_ and erases the context from the detached
\* set (a no-op when it is absent), leaving the other contexts of the set;
\* it then is back at the dequeue. A worker leaves its loop only from a
\* timed-out dequeue.
C19_StepFailureContained ==
  [][\A w \in Workers :
       /\ (DoStepReturns(w) /\ context'[worker[w].ctx].state = "failed") =>
            worker'[w].pc = "latch" /\ worker'[w].has_failed
       /\ (worker[w].pc = "latch" /\ worker[w].has_failed) =>
            worker'[w].pc \in {"latch", "erase"}
       /\ (worker[w].pc = "erase" /\ worker'[w].pc # "erase") =>
            /\ detached_contexts_mutex = Free
            /\ detached_contexts' = detached_contexts \ {worker[w].ctx}
            /\ worker'[w] = NoWorkerContext
       /\ WorkerExits(w) => worker[w].pc = "running"]_vars

\* the Schedule calls past ++task_queue_size_ and before enqueue
Enqueuing == {t \in Producers : sched[t].pc = "enqueue"}

\* the workers past the dequeue and before --task_queue_size_
Undecremented == {w \in Workers : worker[w].pc = "dec"}

\* the entries of the task queue
QueueLength ==
  LET RECURSIVE Sum(_)
      Sum(ps) == IF ps = {} THEN 0
                 ELSE LET p == CHOOSE q \in ps : TRUE
                      IN Len(task_queue[p]) + Sum(ps \ {p})
  IN Sum(Producers)

\* C20: task_queue_size is the number of queued contexts plus the Schedule
\* calls that incremented it and have not enqueued plus the dequeued
\* contexts whose worker has not decremented it; so it is at least the
\* number of queued contexts, never below zero, and 0 when the queue is
\* empty and nobody is in between.
C20_QueueSizeAccounting ==
  /\ task_queue_size =
       QueueLength + Cardinality(Enqueuing) + Cardinality(Undecremented)
  /\ task_queue_size >= QueueLength
  /\ task_queue_size >= 0
  /\ (QueueEmpty(task_queue) /\ Enqueuing = {} /\ Undecremented = {})
       => task_queue_size = 0

\* one context is dequeued and not yet subtracted while the Schedule of
\* another has added it and not yet enqueued
C20_Witness ==
  /\ QueueEmpty(task_queue)
  /\ Enqueuing # {}
  /\ Undecremented # {}
  /\ task_queue_size = 2

(***************************************************************************)
(* Ordering: the properties.                                               *)
(***************************************************************************)
\* worker w begins DoStep on its context in this step
DoStepBegins(w) == worker[w].pc = "step" /\ worker'[w].pc # "step"

\* the tasks whose first step has begun
StepBegun == {c \in Tasks : context[c].state \in {"finished", "failed"}}

\* C14 as stated: for one producer that schedules t1, ..., tN in this order,
\* no worker begins the first DoStep of tj before the first step of ti has
\* begun, for i < j.
C14_StepOrder ==
  [][\A w \in Workers :
       DoStepBegins(w) =>
         \A d \in Tasks : d < worker[w].ctx => d \in StepBegun]_vars

\* worker w dequeues a context in this step
Dequeues(w) == worker[w].pc = "dequeue" /\ worker'[w].ctx # Null

\* C14 amended: for one producer that schedules t1, ..., tN in this order,
\* the workers dequeue them in this order: when tj is dequeued, every ti
\* with i < j has been dequeued, and no entry of ti is on the queue.
C14_DequeueOrder ==
  [][\A w \in Workers :
       Dequeues(w) =>
         \A d \in Tasks :
           d < worker'[w].ctx =>
             /\ d \notin Queued(task_queue)
             /\ context[d].state # "idle"
             /\ \A t \in Producers : sched[t].ctx # d]_vars

\* the second task has been stepped by one worker while the first, dequeued
\* before it, is in the hands of the other worker and not yet stepped
C14_Witness ==
  /\ context[2].state = "finished"
  /\ context[1].state = "runnable"
  /\ \E w \in Workers :
       worker[w].ctx = 1 /\ worker[w].pc \in {"dec", "measure", "step"}

(***************************************************************************)
(* Parking: the properties.                                                *)
(***************************************************************************)
\* the workers that are inside DoStep of c
Stepping(c) == {w \in Workers : worker[w].ctx = c /\ worker[w].pc = "step"}

\* the task has made its terminal step
Ended(c) == context[c].state \in {"finished", "failed"}

\* C13: on a processor with two workers, for a task that parks on the
\* wait-list and is woken through it, at no time are two workers inside
\* DoStep of the same context, and the DoStep calls made on a task are as
\* many as the times it parked itself, plus one once it has ended.
C13_NoDoubleDispatch ==
  \A c \in Tasks :
    /\ Cardinality(Stepping(c)) <= 1
    /\ step_count[c].steps =
         step_count[c].parks + (IF Ended(c) THEN 1 ELSE 0)
    /\ (context[c].state = "idle" \/ Ended(c)) =>
         /\ c \notin Queued(task_queue)
         /\ \A w \in Workers :
              worker[w].ctx = c =>
                worker[w].pc \in {"latch", "erase"}

\* a task parked itself, was woken through the wait-list, was stepped again
\* and ended, while the worker of its first step has not left the iteration
C13_Witness ==
  \E c \in Tasks :
    /\ context[c].state = "finished"
    /\ step_count[c].parks = 1
    /\ step_count[c].steps = 2
    /\ wakeups[c] = 1
    /\ Cardinality({w \in Workers : worker[w].ctx = c}) = 2

====
